---- MODULE Spec2Model ----
(***************************************************************************)
(* A model of aws_list_all: the client cache (client.py) and the command   *)
(* line entry point with its aggregation step (__main__.py).               *)
(*                                                                         *)
(* Python strings are modelled as sequences of one-character strings, so   *)
(* that splitting, iterating and comparing them is computed the way the    *)
(* interpreter computes it.  An optional value is None (the empty tuple)   *)
(* or Some(v) (a one-element tuple).                                       *)
(***************************************************************************)
EXTENDS Integers, Sequences, FiniteSets, TLC

None == <<>>
Some(v) == <<v>>

\* F applied to the value of e: e is computed once, before F uses it.
Let(e, F(_)) == CHOOSE r \in {F(x) : x \in {e}} : TRUE

(***************************************************************************)
(* String literals used by the model.                                      *)
(***************************************************************************)
S_ecs == <<"e", "c", "s">>
S_ec2 == <<"e", "c", "2">>
S_s3 == <<"s", "3">>
S_us_east_1 == <<"u", "s", "-", "e", "a", "s", "t", "-", "1">>
S_eu == <<"e", "u">>
S_us == <<"u", "s">>
S_default == <<"d", "e", "f", "a", "u", "l", "t">>
S_dev == <<"d", "e", "v">>
S_query == <<"q", "u", "e", "r", "y">>
S_show == <<"s", "h", "o", "w">>
S_introspect == <<"i", "n", "t", "r", "o", "s", "p", "e", "c", "t">>
S_recreate_caches == <<"r", "e", "c", "r", "e", "a", "t", "e", "-", "c", "a", "c", "h", "e", "s">>
S_list_services == <<"l", "i", "s", "t", "-", "s", "e", "r", "v", "i", "c", "e", "s">>
S_list_service_regions == <<"l", "i", "s", "t", "-", "s", "e", "r", "v", "i", "c", "e", "-", "r", "e", "g", "i", "o", "n", "s">>
S_list_operations == <<"l", "i", "s", "t", "-", "o", "p", "e", "r", "a", "t", "i", "o", "n", "s">>
S_debug == <<"d", "e", "b", "u", "g">>
S_bogus == <<"b", "o", "g", "u", "s">>
S_opt_s == <<"-", "s">>
S_opt_r == <<"-", "r">>
S_opt_o == <<"-", "o">>
S_opt_p == <<"-", "p">>
S_opt_d == <<"-", "d">>
S_opt_v == <<"-", "v">>
S_opt_c == <<"-", "c">>
S_opt_update == <<"-", "-", "u", "p", "d", "a", "t", "e", "-", "p", "a", "c", "k", "a", "g", "e", "d", "-", "v", "a", "l", "u", "e", "s">>
S_dot == <<".">>
S_dotdot == <<".", ".">>
S_out == <<"o", "u", "t">>
S_empty == <<>>
S_f1 == <<"f", "1">>
S_f2 == <<"f", "2">>
S_w == <<"w">>
S_json_name == <<"a", "w", "s", "_", "l", "i", "s", "t", "_", "a", "l", "l", ".", "j", "s", "o", "n">>
S_json_path == <<".", ".", "/", "a", "w", "s", "_", "l", "i", "s", "t", "_", "a", "l", "l", ".", "j", "s", "o", "n">>
S_opt_h == <<"-", "h">>
S_long_help == <<"-", "-", "h", "e", "l", "p">>
S_long_service == <<"-", "-", "s", "e", "r", "v", "i", "c", "e">>
S_long_region == <<"-", "-", "r", "e", "g", "i", "o", "n">>
S_long_operation == <<"-", "-", "o", "p", "e", "r", "a", "t", "i", "o", "n">>
S_long_parallel == <<"-", "-", "p", "a", "r", "a", "l", "l", "e", "l">>
S_long_directory == <<"-", "-", "d", "i", "r", "e", "c", "t", "o", "r", "y">>
S_long_verbose == <<"-", "-", "v", "e", "r", "b", "o", "s", "e">>
S_long_profile == <<"-", "-", "p", "r", "o", "f", "i", "l", "e">>
S_dashdash == <<"-", "-">>

\* A character is a string: the character itself where a TLA+ string can
\* hold it, the name of its code point ("U+000B") where it cannot.

\* The white space of str: what int() strips from both ends of its
\* argument.
Whitespace ==
    {
        "\t", "\n", "U+000B", "\f", "\r", " ", "U+0085", "U+00A0", "U+1680",
        "U+2000", "U+2001", "U+2002", "U+2003", "U+2004", "U+2005",
        "U+2006", "U+2007", "U+2008", "U+2009", "U+200A", "U+2028",
        "U+2029", "U+202F", "U+205F", "U+3000"
    }

\* The decimal digits of str (category Nd), one row per script, each row
\* the digits of the values 0 to 9 in the order of their code points.
\* int() and the \d of a str pattern take all of them.
DecimalDigits ==
    <<
        <<"0", "1", "2", "3", "4", "5", "6", "7", "8", "9">>,
        <<"U+0660", "U+0661", "U+0662", "U+0663", "U+0664", "U+0665", "U+0666", "U+0667", "U+0668", "U+0669">>,
        <<"U+06F0", "U+06F1", "U+06F2", "U+06F3", "U+06F4", "U+06F5", "U+06F6", "U+06F7", "U+06F8", "U+06F9">>,
        <<"U+07C0", "U+07C1", "U+07C2", "U+07C3", "U+07C4", "U+07C5", "U+07C6", "U+07C7", "U+07C8", "U+07C9">>,
        <<"U+0966", "U+0967", "U+0968", "U+0969", "U+096A", "U+096B", "U+096C", "U+096D", "U+096E", "U+096F">>,
        <<"U+09E6", "U+09E7", "U+09E8", "U+09E9", "U+09EA", "U+09EB", "U+09EC", "U+09ED", "U+09EE", "U+09EF">>,
        <<"U+0A66", "U+0A67", "U+0A68", "U+0A69", "U+0A6A", "U+0A6B", "U+0A6C", "U+0A6D", "U+0A6E", "U+0A6F">>,
        <<"U+0AE6", "U+0AE7", "U+0AE8", "U+0AE9", "U+0AEA", "U+0AEB", "U+0AEC", "U+0AED", "U+0AEE", "U+0AEF">>,
        <<"U+0B66", "U+0B67", "U+0B68", "U+0B69", "U+0B6A", "U+0B6B", "U+0B6C", "U+0B6D", "U+0B6E", "U+0B6F">>,
        <<"U+0BE6", "U+0BE7", "U+0BE8", "U+0BE9", "U+0BEA", "U+0BEB", "U+0BEC", "U+0BED", "U+0BEE", "U+0BEF">>,
        <<"U+0C66", "U+0C67", "U+0C68", "U+0C69", "U+0C6A", "U+0C6B", "U+0C6C", "U+0C6D", "U+0C6E", "U+0C6F">>,
        <<"U+0CE6", "U+0CE7", "U+0CE8", "U+0CE9", "U+0CEA", "U+0CEB", "U+0CEC", "U+0CED", "U+0CEE", "U+0CEF">>,
        <<"U+0D66", "U+0D67", "U+0D68", "U+0D69", "U+0D6A", "U+0D6B", "U+0D6C", "U+0D6D", "U+0D6E", "U+0D6F">>,
        <<"U+0DE6", "U+0DE7", "U+0DE8", "U+0DE9", "U+0DEA", "U+0DEB", "U+0DEC", "U+0DED", "U+0DEE", "U+0DEF">>,
        <<"U+0E50", "U+0E51", "U+0E52", "U+0E53", "U+0E54", "U+0E55", "U+0E56", "U+0E57", "U+0E58", "U+0E59">>,
        <<"U+0ED0", "U+0ED1", "U+0ED2", "U+0ED3", "U+0ED4", "U+0ED5", "U+0ED6", "U+0ED7", "U+0ED8", "U+0ED9">>,
        <<"U+0F20", "U+0F21", "U+0F22", "U+0F23", "U+0F24", "U+0F25", "U+0F26", "U+0F27", "U+0F28", "U+0F29">>,
        <<"U+1040", "U+1041", "U+1042", "U+1043", "U+1044", "U+1045", "U+1046", "U+1047", "U+1048", "U+1049">>,
        <<"U+1090", "U+1091", "U+1092", "U+1093", "U+1094", "U+1095", "U+1096", "U+1097", "U+1098", "U+1099">>,
        <<"U+17E0", "U+17E1", "U+17E2", "U+17E3", "U+17E4", "U+17E5", "U+17E6", "U+17E7", "U+17E8", "U+17E9">>,
        <<"U+1810", "U+1811", "U+1812", "U+1813", "U+1814", "U+1815", "U+1816", "U+1817", "U+1818", "U+1819">>,
        <<"U+1946", "U+1947", "U+1948", "U+1949", "U+194A", "U+194B", "U+194C", "U+194D", "U+194E", "U+194F">>,
        <<"U+19D0", "U+19D1", "U+19D2", "U+19D3", "U+19D4", "U+19D5", "U+19D6", "U+19D7", "U+19D8", "U+19D9">>,
        <<"U+1A80", "U+1A81", "U+1A82", "U+1A83", "U+1A84", "U+1A85", "U+1A86", "U+1A87", "U+1A88", "U+1A89">>,
        <<"U+1A90", "U+1A91", "U+1A92", "U+1A93", "U+1A94", "U+1A95", "U+1A96", "U+1A97", "U+1A98", "U+1A99">>,
        <<"U+1B50", "U+1B51", "U+1B52", "U+1B53", "U+1B54", "U+1B55", "U+1B56", "U+1B57", "U+1B58", "U+1B59">>,
        <<"U+1BB0", "U+1BB1", "U+1BB2", "U+1BB3", "U+1BB4", "U+1BB5", "U+1BB6", "U+1BB7", "U+1BB8", "U+1BB9">>,
        <<"U+1C40", "U+1C41", "U+1C42", "U+1C43", "U+1C44", "U+1C45", "U+1C46", "U+1C47", "U+1C48", "U+1C49">>,
        <<"U+1C50", "U+1C51", "U+1C52", "U+1C53", "U+1C54", "U+1C55", "U+1C56", "U+1C57", "U+1C58", "U+1C59">>,
        <<"U+A620", "U+A621", "U+A622", "U+A623", "U+A624", "U+A625", "U+A626", "U+A627", "U+A628", "U+A629">>,
        <<"U+A8D0", "U+A8D1", "U+A8D2", "U+A8D3", "U+A8D4", "U+A8D5", "U+A8D6", "U+A8D7", "U+A8D8", "U+A8D9">>,
        <<"U+A900", "U+A901", "U+A902", "U+A903", "U+A904", "U+A905", "U+A906", "U+A907", "U+A908", "U+A909">>,
        <<"U+A9D0", "U+A9D1", "U+A9D2", "U+A9D3", "U+A9D4", "U+A9D5", "U+A9D6", "U+A9D7", "U+A9D8", "U+A9D9">>,
        <<"U+A9F0", "U+A9F1", "U+A9F2", "U+A9F3", "U+A9F4", "U+A9F5", "U+A9F6", "U+A9F7", "U+A9F8", "U+A9F9">>,
        <<"U+AA50", "U+AA51", "U+AA52", "U+AA53", "U+AA54", "U+AA55", "U+AA56", "U+AA57", "U+AA58", "U+AA59">>,
        <<"U+ABF0", "U+ABF1", "U+ABF2", "U+ABF3", "U+ABF4", "U+ABF5", "U+ABF6", "U+ABF7", "U+ABF8", "U+ABF9">>,
        <<"U+FF10", "U+FF11", "U+FF12", "U+FF13", "U+FF14", "U+FF15", "U+FF16", "U+FF17", "U+FF18", "U+FF19">>,
        <<"U+104A0", "U+104A1", "U+104A2", "U+104A3", "U+104A4", "U+104A5", "U+104A6", "U+104A7", "U+104A8", "U+104A9">>,
        <<"U+10D30", "U+10D31", "U+10D32", "U+10D33", "U+10D34", "U+10D35", "U+10D36", "U+10D37", "U+10D38", "U+10D39">>,
        <<"U+11066", "U+11067", "U+11068", "U+11069", "U+1106A", "U+1106B", "U+1106C", "U+1106D", "U+1106E", "U+1106F">>,
        <<"U+110F0", "U+110F1", "U+110F2", "U+110F3", "U+110F4", "U+110F5", "U+110F6", "U+110F7", "U+110F8", "U+110F9">>,
        <<"U+11136", "U+11137", "U+11138", "U+11139", "U+1113A", "U+1113B", "U+1113C", "U+1113D", "U+1113E", "U+1113F">>,
        <<"U+111D0", "U+111D1", "U+111D2", "U+111D3", "U+111D4", "U+111D5", "U+111D6", "U+111D7", "U+111D8", "U+111D9">>,
        <<"U+112F0", "U+112F1", "U+112F2", "U+112F3", "U+112F4", "U+112F5", "U+112F6", "U+112F7", "U+112F8", "U+112F9">>,
        <<"U+11450", "U+11451", "U+11452", "U+11453", "U+11454", "U+11455", "U+11456", "U+11457", "U+11458", "U+11459">>,
        <<"U+114D0", "U+114D1", "U+114D2", "U+114D3", "U+114D4", "U+114D5", "U+114D6", "U+114D7", "U+114D8", "U+114D9">>,
        <<"U+11650", "U+11651", "U+11652", "U+11653", "U+11654", "U+11655", "U+11656", "U+11657", "U+11658", "U+11659">>,
        <<"U+116C0", "U+116C1", "U+116C2", "U+116C3", "U+116C4", "U+116C5", "U+116C6", "U+116C7", "U+116C8", "U+116C9">>,
        <<"U+11730", "U+11731", "U+11732", "U+11733", "U+11734", "U+11735", "U+11736", "U+11737", "U+11738", "U+11739">>,
        <<"U+118E0", "U+118E1", "U+118E2", "U+118E3", "U+118E4", "U+118E5", "U+118E6", "U+118E7", "U+118E8", "U+118E9">>,
        <<"U+11950", "U+11951", "U+11952", "U+11953", "U+11954", "U+11955", "U+11956", "U+11957", "U+11958", "U+11959">>,
        <<"U+11C50", "U+11C51", "U+11C52", "U+11C53", "U+11C54", "U+11C55", "U+11C56", "U+11C57", "U+11C58", "U+11C59">>,
        <<"U+11D50", "U+11D51", "U+11D52", "U+11D53", "U+11D54", "U+11D55", "U+11D56", "U+11D57", "U+11D58", "U+11D59">>,
        <<"U+11DA0", "U+11DA1", "U+11DA2", "U+11DA3", "U+11DA4", "U+11DA5", "U+11DA6", "U+11DA7", "U+11DA8", "U+11DA9">>,
        <<"U+16A60", "U+16A61", "U+16A62", "U+16A63", "U+16A64", "U+16A65", "U+16A66", "U+16A67", "U+16A68", "U+16A69">>,
        <<"U+16AC0", "U+16AC1", "U+16AC2", "U+16AC3", "U+16AC4", "U+16AC5", "U+16AC6", "U+16AC7", "U+16AC8", "U+16AC9">>,
        <<"U+16B50", "U+16B51", "U+16B52", "U+16B53", "U+16B54", "U+16B55", "U+16B56", "U+16B57", "U+16B58", "U+16B59">>,
        <<"U+1D7CE", "U+1D7CF", "U+1D7D0", "U+1D7D1", "U+1D7D2", "U+1D7D3", "U+1D7D4", "U+1D7D5", "U+1D7D6", "U+1D7D7">>,
        <<"U+1D7D8", "U+1D7D9", "U+1D7DA", "U+1D7DB", "U+1D7DC", "U+1D7DD", "U+1D7DE", "U+1D7DF", "U+1D7E0", "U+1D7E1">>,
        <<"U+1D7E2", "U+1D7E3", "U+1D7E4", "U+1D7E5", "U+1D7E6", "U+1D7E7", "U+1D7E8", "U+1D7E9", "U+1D7EA", "U+1D7EB">>,
        <<"U+1D7EC", "U+1D7ED", "U+1D7EE", "U+1D7EF", "U+1D7F0", "U+1D7F1", "U+1D7F2", "U+1D7F3", "U+1D7F4", "U+1D7F5">>,
        <<"U+1D7F6", "U+1D7F7", "U+1D7F8", "U+1D7F9", "U+1D7FA", "U+1D7FB", "U+1D7FC", "U+1D7FD", "U+1D7FE", "U+1D7FF">>,
        <<"U+1E140", "U+1E141", "U+1E142", "U+1E143", "U+1E144", "U+1E145", "U+1E146", "U+1E147", "U+1E148", "U+1E149">>,
        <<"U+1E2F0", "U+1E2F1", "U+1E2F2", "U+1E2F3", "U+1E2F4", "U+1E2F5", "U+1E2F6", "U+1E2F7", "U+1E2F8", "U+1E2F9">>,
        <<"U+1E950", "U+1E951", "U+1E952", "U+1E953", "U+1E954", "U+1E955", "U+1E956", "U+1E957", "U+1E958", "U+1E959">>,
        <<"U+1FBF0", "U+1FBF1", "U+1FBF2", "U+1FBF3", "U+1FBF4", "U+1FBF5", "U+1FBF6", "U+1FBF7", "U+1FBF8", "U+1FBF9">>
    >>

Digits == {DecimalDigits[k][v] : k \in 1..Len(DecimalDigits), v \in 1..10}
DigitValue(c) ==
    CHOOSE v \in 0..9 : \E k \in 1..Len(DecimalDigits) :
        DecimalDigits[k][v + 1] = c

\* ord(): the code points of the characters the model uses.
Ord ==
    LET Zeros ==
          <<
            48, 1632, 1776, 1984, 2406, 2534, 2662, 2790, 2918, 3046, 3174,
            3302, 3430, 3558, 3664, 3792, 3872, 4160, 4240, 6112, 6160,
            6470, 6608, 6784, 6800, 6992, 7088, 7232, 7248, 42528, 43216,
            43264, 43472, 43504, 43600, 44016, 65296, 66720, 68912, 69734,
            69872, 69942, 70096, 70384, 70736, 70864, 71248, 71360, 71472,
            71904, 72016, 72784, 73040, 73120, 92768, 92864, 93008, 120782,
            120792, 120802, 120812, 120822, 123200, 123632, 125264, 130032
          >>
    IN
    ("\t" :> 9) @@ ("\n" :> 10) @@ ("U+000B" :> 11) @@ ("\f" :> 12) @@
    ("\r" :> 13) @@ (" " :> 32) @@ ("+" :> 43) @@ ("," :> 44) @@
    ("-" :> 45) @@ ("." :> 46) @@ ("/" :> 47) @@ ("=" :> 61) @@
    ("A" :> 65) @@ ("B" :> 66) @@ ("L" :> 76) @@ ("_" :> 95) @@
    ("a" :> 97) @@ ("b" :> 98) @@ ("c" :> 99) @@ ("d" :> 100) @@
    ("e" :> 101) @@ ("f" :> 102) @@ ("g" :> 103) @@ ("h" :> 104) @@
    ("i" :> 105) @@ ("j" :> 106) @@ ("k" :> 107) @@ ("l" :> 108) @@
    ("n" :> 110) @@ ("o" :> 111) @@ ("p" :> 112) @@ ("q" :> 113) @@
    ("r" :> 114) @@ ("s" :> 115) @@ ("t" :> 116) @@ ("u" :> 117) @@
    ("v" :> 118) @@ ("w" :> 119) @@ ("y" :> 121) @@ ("U+0085" :> 133) @@
    ("U+00A0" :> 160) @@ ("U+1680" :> 5760) @@ ("U+2000" :> 8192) @@
    ("U+2001" :> 8193) @@ ("U+2002" :> 8194) @@ ("U+2003" :> 8195) @@
    ("U+2004" :> 8196) @@ ("U+2005" :> 8197) @@ ("U+2006" :> 8198) @@
    ("U+2007" :> 8199) @@ ("U+2008" :> 8200) @@ ("U+2009" :> 8201) @@
    ("U+200A" :> 8202) @@ ("U+2028" :> 8232) @@ ("U+2029" :> 8233) @@
    ("U+202F" :> 8239) @@ ("U+205F" :> 8287) @@ ("U+3000" :> 12288) @@
    [c \in Digits |->
        Zeros[CHOOSE k \in 1..Len(DecimalDigits) :
                  \E v \in 1..10 : DecimalDigits[k][v] = c]
        + DigitValue(c)]

(***************************************************************************)
(* State                                                                   *)
(***************************************************************************)

\* client.py
VARIABLES
    CLIENTS,      \* client.py _CLIENTS: key -> client
    nsessions,    \* number of boto3.Session objects constructed so far
    nclients,     \* number of clients constructed so far
    built,        \* the clients constructed so far, in construction order
    log,          \* the (key, client, session) triples returned so far
    thr           \* per thread: position in get_client and its locals

clientVars == <<CLIENTS, nsessions, nclients, built, log, thr>>

\* The call of restructure
VARIABLES
    data,       \* the argument of restructure: class -> list of records
    new_data    \* the value restructure returned, None before the call

aggVars == <<data, new_data>>

\* The open file limits of the process
VARIABLES
    CAN_SET_OPEN_FILE_LIMIT,  \* lines 18-24: the resource module imported
    soft_limit,               \* the process's RLIMIT_NOFILE soft limit
    hard_limit,               \* the process's RLIMIT_NOFILE hard limit
    limit0,                   \* the (soft, hard) pair the process started with
    limit_calls               \* calls of increase_limit_nofiles so far

limitVars ==
    <<CAN_SET_OPEN_FILE_LIMIT, soft_limit, hard_limit, limit0, limit_calls>>

\* One run of main
VARIABLES
    argv,             \* the words of the command line after the program name
    phase,            \* "start", "querying" (inside do_query) or "exited"
    cwd,              \* the process's working directory
    dirs,             \* the directories that exist
    files,            \* path -> content of the files that exist
    written,          \* the paths the process opened for writing, in order
    to_run,           \* do_query: the job set, (service, region, operation)
    pending,          \* do_query: the indices of the jobs not yet completed
    results_by_type,  \* do_query: the records collected so far, by class
    result_group,     \* line 206: the value of restructure(results_by_type)
    printed,          \* the lines the loop of lines 210-213 printed
    raised,           \* the exception that ended the run, None without one
    exit_status       \* the exit status of the process, None while it runs

mainVars ==
    <<argv, phase, cwd, dirs, files, written, to_run, pending,
      results_by_type, result_group, printed, raised, exit_status>>

vars == <<clientVars, aggVars, limitVars, mainVars>>

(***************************************************************************)
(* client.py                                                               *)
(***************************************************************************)

\* Bounds of the client cache model.
NumThreads == 2
MaxCalls == 3

Threads == 1..NumThreads

ClientServices == {S_ecs, S_s3}
ClientRegions == {S_us_east_1, S_eu}
ClientProfiles == {S_default, S_dev}

\* The arguments a caller may pass: region and profile may be omitted.
CallArgs ==
    [service : ClientServices,
     region : {None} \cup {Some(r) : r \in ClientRegions},
     profile : {None} \cup {Some(p) : p \in ClientProfiles}]

\* key = (service, region, profile), with the defaults of the signature.
Key(a) ==
    <<a.service,
      IF a.region = None THEN S_us_east_1 ELSE a.region[1],
      IF a.profile = None THEN S_default ELSE a.profile[1]>>

\* boto3.Session(region_name=region, profile_name=profile): a fresh object.
NewSession(n, key) == [sid |-> n + 1, region |-> key[2], profile |-> key[3]]

\* session.client(service): a fresh object bound to the session's settings.
NewClient(n, sess, service) ==
    [cid |-> n + 1, service |-> service, region |-> sess.region,
     profile |-> sess.profile]

\* dict store: _CLIENTS[key] = value
Store(d, k, v) == [x \in DOMAIN d \cup {k} |-> IF x = k THEN v ELSE d[x]]

\* A variant that constructs a client on every call.
get_client_always(cache, ns, nc, a) ==
    LET key == Key(a)
        s == NewSession(ns, key)
        c == NewClient(nc, s, key[1])
    IN  [cache |-> Store(cache, key, c), ns |-> ns + 1, nc |-> nc + 1,
         made |-> <<c>>, client |-> c, session |-> Some(s)]

\* A variant that hands the session out on a cache hit as well.
get_client_hit_session(cache, ns, nc, a) ==
    LET key == Key(a)
    IN  IF key \notin DOMAIN cache
        THEN LET s == NewSession(ns, key)
                 c == NewClient(nc, s, key[1])
             IN  [cache |-> Store(cache, key, c), ns |-> ns + 1,
                  nc |-> nc + 1, made |-> <<c>>, client |-> c,
                  session |-> Some(s)]
        ELSE [cache |-> cache, ns |-> ns + 1, nc |-> nc, made |-> <<>>,
              client |-> cache[key],
              session |-> Some(NewSession(ns, key))]

\* get_client run from entry to return with no other call in between.
get_client(cache, ns, nc, a) ==
    LET key == Key(a)
    IN  IF key \notin DOMAIN cache
        THEN LET s == NewSession(ns, key)
                 c == NewClient(nc, s, key[1])
                 cache2 == Store(cache, key, c)
             IN  [cache |-> cache2, ns |-> ns + 1, nc |-> nc + 1,
                  made |-> <<c>>, client |-> cache2[key],
                  session |-> Some(s)]
        ELSE [cache |-> cache, ns |-> ns, nc |-> nc, made |-> <<>>,
              client |-> cache[key], session |-> None]

Idle == [pc |-> "idle", key |-> None, session |-> None, obj |-> None]

ClientInit ==
    /\ CLIENTS = <<>>
    /\ nsessions = 0
    /\ nclients = 0
    /\ built = <<>>
    /\ log = <<>>
    /\ thr = [t \in Threads |-> Idle]

\* One whole call, as made by a single-threaded caller.
SeqCall ==
    /\ Len(log) < MaxCalls
    /\ \E a \in CallArgs :
        LET r == get_client(CLIENTS, nsessions, nclients, a)
        IN  /\ CLIENTS' = r.cache
            /\ nsessions' = r.ns
            /\ nclients' = r.nc
            /\ built' = built \o r.made
            /\ log' = Append(log, [key |-> Key(a), client |-> r.client,
                                   session |-> r.session])
    /\ UNCHANGED <<thr, aggVars, limitVars, mainVars>>

\* Lines 8-9: a thread enters get_client.
Enter(t) ==
    /\ thr[t].pc = "idle"
    /\ Len(log) + Cardinality({u \in Threads : thr[u].pc # "idle"}) < MaxCalls
    /\ \E a \in CallArgs :
        thr' = [thr EXCEPT ![t] = [pc |-> "check", key |-> Some(Key(a)),
                                   session |-> None, obj |-> None]]
    /\ UNCHANGED <<CLIENTS, nsessions, nclients, built, log>>
    /\ UNCHANGED <<aggVars, limitVars, mainVars>>

\* Line 10: if key not in _CLIENTS
Check(t) ==
    /\ thr[t].pc = "check"
    /\ thr' = [thr EXCEPT ![t].pc =
                 IF thr[t].key[1] \notin DOMAIN CLIENTS
                 THEN "session" ELSE "return"]
    /\ UNCHANGED <<CLIENTS, nsessions, nclients, built, log>>
    /\ UNCHANGED <<aggVars, limitVars, mainVars>>

\* Line 11: session = boto3.Session(...)
MakeSession(t) ==
    /\ thr[t].pc = "session"
    /\ thr' = [thr EXCEPT ![t].pc = "client",
                          ![t].session =
                              Some(NewSession(nsessions, thr[t].key[1]))]
    /\ nsessions' = nsessions + 1
    /\ UNCHANGED <<CLIENTS, nclients, built, log>>
    /\ UNCHANGED <<aggVars, limitVars, mainVars>>

\* Line 12, right-hand side: session.client(service)
MakeClient(t) ==
    /\ thr[t].pc = "client"
    /\ LET c == NewClient(nclients, thr[t].session[1], thr[t].key[1][1])
       IN  /\ thr' = [thr EXCEPT ![t].pc = "store", ![t].obj = Some(c)]
           /\ built' = Append(built, c)
    /\ nclients' = nclients + 1
    /\ UNCHANGED <<CLIENTS, nsessions, log>>
    /\ UNCHANGED <<aggVars, limitVars, mainVars>>

\* Line 12, assignment: _CLIENTS[key] = ...
Publish(t) ==
    /\ thr[t].pc = "store"
    /\ CLIENTS' = Store(CLIENTS, thr[t].key[1], thr[t].obj[1])
    /\ thr' = [thr EXCEPT ![t].pc = "return"]
    /\ UNCHANGED <<nsessions, nclients, built, log>>
    /\ UNCHANGED <<aggVars, limitVars, mainVars>>

\* Line 13: return _CLIENTS[key], session
Return(t) ==
    /\ thr[t].pc = "return"
    /\ log' = Append(log, [key |-> thr[t].key[1],
                           client |-> CLIENTS[thr[t].key[1]],
                           session |-> thr[t].session])
    /\ thr' = [thr EXCEPT ![t] = Idle]
    /\ UNCHANGED <<CLIENTS, nsessions, nclients, built>>
    /\ UNCHANGED <<aggVars, limitVars, mainVars>>

(***************************************************************************)
(* __main__.py: restructure                                                *)
(***************************************************************************)

\* Result classes (query.py RESULT_*).
RESULT_NOTHING == "NOTHING"
RESULT_SOMETHING == "SOMETHING"
RESULT_NO_ACCESS == "NO_ACCESS"
RESULT_ERROR == "ERROR"
ResultClasses ==
    {RESULT_NOTHING, RESULT_SOMETHING, RESULT_NO_ACCESS, RESULT_ERROR}

S_ListA == <<"L", "s", "A">>
S_ListB == <<"L", "s", "B">>
S_tA == <<"A">>
S_tAB == <<"A", ",", " ", "B">>

\* Bound of the aggregation model: records in one input mapping.
MaxRecs == 2

AggRegions == {S_eu, S_us}
AggServices == {S_ec2, S_s3}
AggOperations == {S_ListA, S_ListB}
AggTypes == {S_tA, S_tAB}

\* The result types the sampled records of an operation carry.
TypesOfOperation(o) == IF o = S_ListA THEN S_tAB ELSE S_tA

\* Classified records: (region, service, operation, result types).
AggItems ==
    {<<r, s, o, TypesOfOperation(o)>> :
        r \in AggRegions, s \in AggServices, o \in AggOperations}

\* str.split(", "), scanning left to right from position i; the piece
\* being collected starts at position start.
RECURSIVE SplitFrom(_, _, _)
SplitFrom(s, start, i) ==
    IF i > Len(s)
    THEN <<SubSeq(s, start, Len(s))>>
    ELSE IF i + 1 <= Len(s) /\ s[i] = "," /\ s[i + 1] = " "
         THEN <<SubSeq(s, start, i - 1)>> \o SplitFrom(s, i + 2, i + 2)
         ELSE SplitFrom(s, start, i + 1)

Split(s) == SplitFrom(s, 1, 1)

\* A variant that puts the new entry in front of the list.
AddItem_front(d, item) ==
    LET region == item[1]
        service == item[2]
        entry == [operation |-> item[3], result_types |-> Split(item[4])]
        d1 == IF region \notin DOMAIN d THEN Store(d, region, <<>>) ELSE d
        d2 == IF service \notin DOMAIN d1[region]
              THEN Store(d1, region, Store(d1[region], service, <<>>))
              ELSE d1
    IN  Store(d2, region,
              Store(d2[region], service, <<entry>> \o d2[region][service]))

\* Lines 67-80: the body of the inner loop, on new_data[data_type].
AddItem(d, item) ==
    LET region == item[1]
        service == item[2]
        entry == [operation |-> item[3], result_types |-> Split(item[4])]
        d1 == IF region \notin DOMAIN d THEN Store(d, region, <<>>) ELSE d
        d2 == IF service \notin DOMAIN d1[region]
              THEN Store(d1, region, Store(d1[region], service, <<>>))
              ELSE d1
    IN  Store(d2, region,
              Store(d2[region], service, Append(d2[region][service], entry)))

\* Lines 66-80: the inner loop over data[data_type], from item i on.
RECURSIVE FoldItems(_, _, _)
FoldItems(d, items, i) ==
    IF i > Len(items) THEN d
    ELSE FoldItems(AddItem(d, items[i]), items, i + 1)

\* Lines 60-81.  Each class is folded into its own new_data[data_type],
\* which line 63 created empty.
restructure(dat) ==
    [c \in DOMAIN dat |-> FoldItems(<<>>, dat[c], 1)]

\* The input mappings: the records of a bounded sequence of classified
\* records, grouped by class in sequence order, under a set of class keys.
RECURSIVE SeqsUpTo(_, _)
SeqsUpTo(S, n) ==
    IF n = 0 THEN {<<>>}
    ELSE LET prev == SeqsUpTo(S, n - 1)
         IN  prev \cup {Append(q, x) : q \in {p \in prev : Len(p) = n - 1},
                                       x \in S}

Classified == [class : ResultClasses, item : AggItems]

RECURSIVE ItemsOf(_, _, _)
ItemsOf(q, c, i) ==
    IF i > Len(q) THEN <<>>
    ELSE (IF q[i].class = c THEN <<q[i].item>> ELSE <<>>)
         \o ItemsOf(q, c, i + 1)

AggInit ==
    /\ \E q \in SeqsUpTo(Classified, MaxRecs), K \in SUBSET ResultClasses :
           data = [c \in K |-> ItemsOf(q, c, 1)]
    /\ new_data = None

\* The call restructure(data).
Restructure ==
    /\ new_data = None
    /\ new_data' = Some(restructure(data))
    /\ UNCHANGED <<data, clientVars, limitVars, mainVars>>

(***************************************************************************)
(* __main__.py: increase_limit_nofiles                                     *)
(***************************************************************************)

\* Bound of the limit model: how far around the desired limit the sampled
\* limits reach.
MaxDelta == 2

\* Line 37.
desired_limit == 6000

LimitValues ==
    {0, 256, 1024} \cup ((desired_limit - MaxDelta)..(desired_limit + MaxDelta))

Min(a, b) == IF a < b THEN a ELSE b
Max(a, b) == IF a > b THEN a ELSE b

\* A variant that asks for the desired limit whatever the hard limit is.
increase_limit_nofiles_nomin(can, soft, hard) ==
    IF ~can THEN [soft |-> soft, hard |-> hard]
    ELSE IF desired_limit > soft
         THEN [soft |-> desired_limit, hard |-> hard]
         ELSE [soft |-> soft, hard |-> hard]

\* Lines 31-56: the limits after the call, from the limits before it.
increase_limit_nofiles(can, soft, hard) ==
    IF ~can THEN [soft |-> soft, hard |-> hard]
    ELSE LET target_soft_limit == Min(desired_limit, hard)
         IN  IF target_soft_limit > soft
             THEN [soft |-> target_soft_limit, hard |-> hard]
             ELSE [soft |-> soft, hard |-> hard]

LimitInit ==
    /\ CAN_SET_OPEN_FILE_LIMIT \in BOOLEAN
    /\ soft_limit \in LimitValues
    /\ hard_limit \in LimitValues
    /\ soft_limit <= hard_limit
    /\ limit0 = <<soft_limit, hard_limit>>
    /\ limit_calls = 0

\* The call increase_limit_nofiles(); main makes it at most once.
IncreaseLimit ==
    /\ limit_calls = 0
    /\ LET r == increase_limit_nofiles(CAN_SET_OPEN_FILE_LIMIT, soft_limit,
                                       hard_limit)
       IN  /\ soft_limit' = r.soft
           /\ hard_limit' = r.hard
    /\ limit_calls' = limit_calls + 1
    /\ UNCHANGED <<CAN_SET_OPEN_FILE_LIMIT, limit0, clientVars, aggVars, mainVars>>

(***************************************************************************)
(* __main__.py: the argument parser that main builds (lines 86-187)        *)
(*                                                                         *)
(* parse_args is computed the way argparse computes it for the parsers     *)
(* main declares: every word is classified as an option or an argument,    *)
(* then options and positionals are consumed from left to right.  An exit  *)
(* of the parser is recorded in the field exit of the namespace: status 0  *)
(* after printing the help, status 2 after a usage error.                  *)
(***************************************************************************)

\* The namespace parse_args returns, with the defaults of the options
\* (lines 102-123, 129-130, 159-164, 178-185).
DefaultArgs ==
    [exit |-> None, command |-> None, service |-> None, region |-> None,
     operation |-> None, parallel |-> 32, directory |-> S_dot,
     verbose |-> None, profile |-> None, listingfile |-> <<>>,
     introspect |-> None, update_packaged_values |-> FALSE]

\* action='append': the list so far, or a new list, with the value added.
AppendOpt(cur, v) == IF cur = None THEN Some(<<v>>) ELSE Some(Append(cur[1], v))

\* action='count'
CountOpt(cur) == IF cur = None THEN Some(1) ELSE Some(cur[1] + 1)

\* s.find(c) + 1: the first position of c in s, 0 when it does not occur.
IndexOf(s, c) ==
    IF \E i \in 1..Len(s) : s[i] = c
    THEN CHOOSE i \in 1..Len(s) : s[i] = c /\ \A j \in 1..(i - 1) : s[j] # c
    ELSE 0

\* s.startswith(p)
StartsWith(s, p) == Len(p) <= Len(s) /\ SubSeq(s, 1, Len(p)) = p

\* s.strip()
RECURSIVE Strip(_)
Strip(s) ==
    IF s # <<>> /\ s[1] \in Whitespace THEN Strip(Tail(s))
    ELSE IF s # <<>> /\ s[Len(s)] \in Whitespace
    THEN Strip(SubSeq(s, 1, Len(s) - 1))
    ELSE s

\* The digits of an int literal: what is left of the stripped string after
\* an optional sign.
IntBody(tok) ==
    IF Strip(tok) # <<>> /\ Strip(tok)[1] \in {"+", "-"}
    THEN Tail(Strip(tok))
    ELSE Strip(tok)

\* sys.int_max_str_digits as the interpreter starts with it: int() raises
\* ValueError for a string of more digits.
MaxStrDigits == 4300

\* int(tok) succeeds: decimal digits, single underscores between digits,
\* an optional sign, white space around, and no more than MaxStrDigits
\* digits (underscores, sign and white space are not counted).
IsInt(tok) ==
    LET b == IntBody(tok)
    IN  /\ Len(b) > 0
        /\ Cardinality({i \in 1..Len(b) : b[i] # "_"}) <= MaxStrDigits
        /\ b[1] \in Digits
        /\ b[Len(b)] \in Digits
        /\ \A i \in 1..Len(b) : b[i] \in Digits \cup {"_"}
        /\ \A i \in 1..(Len(b) - 1) : b[i] = "_" => b[i + 1] # "_"

\* The value of the first n characters of a digit string with underscores.
RECURSIVE DigitsValue(_, _)
DigitsValue(b, n) ==
    IF n = 0 THEN 0
    ELSE IF b[n] = "_" THEN DigitsValue(b, n - 1)
    ELSE 10 * DigitsValue(b, n - 1) + DigitValue(b[n])

\* type=int: int(tok) for a string int() accepts.
ToInt(tok) ==
    IF Strip(tok)[1] = "-"
    THEN 0 - DigitsValue(IntBody(tok), Len(IntBody(tok)))
    ELSE DigitsValue(IntBody(tok), Len(IntBody(tok)))

\* The actions of the options, by kind: "help" prints the help and exits,
\* "count" and "store_true" take no argument, "append", "store" and "int"
\* take one.
Act(kind, dest) == [kind |-> kind, dest |-> dest]
NoArgumentKinds == {"help", "count", "store_true"}

\* Every parser and subparser has -h/--help (add_help defaults to True).
HelpOptions ==
    (S_opt_h :> Act("help", "help")) @@ (S_long_help :> Act("help", "help"))

\* Lines 102-123
QueryOptions ==
    HelpOptions
    @@ (S_opt_s :> Act("append", "service"))
    @@ (S_long_service :> Act("append", "service"))
    @@ (S_opt_r :> Act("append", "region"))
    @@ (S_long_region :> Act("append", "region"))
    @@ (S_opt_o :> Act("append", "operation"))
    @@ (S_long_operation :> Act("append", "operation"))
    @@ (S_opt_p :> Act("int", "parallel"))
    @@ (S_long_parallel :> Act("int", "parallel"))
    @@ (S_opt_d :> Act("store", "directory"))
    @@ (S_long_directory :> Act("store", "directory"))
    @@ (S_opt_v :> Act("count", "verbose"))
    @@ (S_long_verbose :> Act("count", "verbose"))
    @@ (S_opt_c :> Act("store", "profile"))
    @@ (S_long_profile :> Act("store", "profile"))

\* Line 130
ShowOptions ==
    HelpOptions
    @@ (S_opt_v :> Act("count", "verbose"))
    @@ (S_long_verbose :> Act("count", "verbose"))

\* Lines 159-164
OpsOptions ==
    HelpOptions
    @@ (S_opt_s :> Act("append", "service"))
    @@ (S_long_service :> Act("append", "service"))

\* Lines 178-185
CachesOptions ==
    HelpOptions @@ (S_opt_update :> Act("store_true", "update_packaged_values"))

\* The parsers main declares.  pos is the positional of the parser: a
\* subparsers action ("parser") with its choices, the nargs='*' argument
\* ("star"), or none.
ParserOf(pid) ==
    CASE pid = "main" ->
            [opts |-> HelpOptions, pos |-> "parser", dest |-> "command",
             choices |-> (S_query :> "query") @@ (S_show :> "show")
                         @@ (S_introspect :> "introspect")
                         @@ (S_recreate_caches :> "recreate-caches")]
      [] pid = "query" ->
            [opts |-> QueryOptions, pos |-> "none", dest |-> "",
             choices |-> <<>>]
      [] pid = "show" ->
            [opts |-> ShowOptions, pos |-> "star", dest |-> "listingfile",
             choices |-> <<>>]
      [] pid = "introspect" ->
            [opts |-> HelpOptions, pos |-> "parser", dest |-> "introspect",
             choices |-> (S_list_services :> "detail")
                         @@ (S_list_service_regions :> "detail")
                         @@ (S_list_operations :> "list-operations")
                         @@ (S_debug :> "detail")]
      [] pid = "list-operations" ->
            [opts |-> OpsOptions, pos |-> "none", dest |-> "",
             choices |-> <<>>]
      [] pid = "recreate-caches" ->
            [opts |-> CachesOptions, pos |-> "none", dest |-> "",
             choices |-> <<>>]
      [] pid = "detail" ->
            [opts |-> HelpOptions, pos |-> "none", dest |-> "",
             choices |-> <<>>]

\* The parser's pattern for negative numbers, '^-\d+$|^-\d*\.\d+$'; $ also
\* matches before a final newline.
IsNegativeNumber(s) ==
    LET AllDigits(w, a, b) == \A i \in a..b : w[i] \in Digits
        Matches(w) ==
            /\ Len(w) >= 2
            /\ w[1] = "-"
            /\ \/ AllDigits(w, 2, Len(w))
               \/ /\ IndexOf(w, ".") > 0
                  /\ IndexOf(w, ".") < Len(w)
                  /\ AllDigits(w, 2, IndexOf(w, ".") - 1)
                  /\ AllDigits(w, IndexOf(w, ".") + 1, Len(w))
    IN  \/ Matches(s)
        \/ /\ s # <<>>
           /\ s[Len(s)] = "\n"
           /\ Matches(SubSeq(s, 1, Len(s) - 1))

\* A word as the parser reads it: an argument ("A"), the first "--" ("-"),
\* an option ("O": opt is its option string, None for one the parser does
\* not know, and exp the argument attached to it), or an ambiguous
\* abbreviation ("amb"), for which the parser exits.
Word(cls, opt, exp) == [cls |-> cls, opt |-> opt, exp |-> exp]

\* The part of a word after its first "=", None without one.
AfterEquals(arg) ==
    IF IndexOf(arg, "=") > 0
    THEN Some(SubSeq(arg, IndexOf(arg, "=") + 1, Len(arg)))
    ELSE None

\* The part of a word before its first "=", the word without one.
BeforeEquals(arg) ==
    IF IndexOf(arg, "=") > 0
    THEN SubSeq(arg, 1, IndexOf(arg, "=") - 1)
    ELSE arg

\* argparse _get_option_tuples: the readings of a word as an abbreviated
\* long option (with an argument after "=") or as a short option with its
\* argument attached.
GetOptionTuples(opts, arg) ==
    IF arg[2] = "-"
    THEN {Word("O", Some(o), AfterEquals(arg)) :
             o \in {x \in DOMAIN opts : StartsWith(x, BeforeEquals(arg))}}
    ELSE {Word("O", Some(o), Some(SubSeq(arg, 3, Len(arg)))) :
             o \in {x \in DOMAIN opts : x = SubSeq(arg, 1, 2)}}
         \cup {Word("O", Some(o), None) :
                  o \in {x \in DOMAIN opts :
                            x # SubSeq(arg, 1, 2) /\ StartsWith(x, arg)}}

\* argparse _parse_optional.  No parser here has an option that looks
\* like a negative number.
ParseOptional(opts, arg) ==
    IF arg = <<>> THEN Word("A", None, None)
    ELSE IF arg[1] # "-" THEN Word("A", None, None)
    ELSE IF arg \in DOMAIN opts THEN Word("O", Some(arg), None)
    ELSE IF Len(arg) = 1 THEN Word("A", None, None)
    ELSE IF IndexOf(arg, "=") > 0 /\ BeforeEquals(arg) \in DOMAIN opts
    THEN Word("O", Some(BeforeEquals(arg)), AfterEquals(arg))
    ELSE Let(GetOptionTuples(opts, arg),
             LAMBDA tuples :
                 IF Cardinality(tuples) > 1 THEN Word("amb", None, None)
                 ELSE IF Cardinality(tuples) = 1
                 THEN CHOOSE t \in tuples : TRUE
                 ELSE IF IsNegativeNumber(arg) THEN Word("A", None, None)
                 ELSE IF \E i \in 1..Len(arg) : arg[i] = " "
                 THEN Word("A", None, None)
                 ELSE Word("O", None, None))

\* The classification of the words: the first "--" and every word after
\* it are not looked at for options.
Classify(opts, toks) ==
    LET dd == IndexOf(toks, S_dashdash)
    IN  [i \in 1..Len(toks) |->
            IF dd > 0 /\ i = dd THEN Word("-", None, None)
            ELSE IF dd > 0 /\ i > dd THEN Word("A", None, None)
            ELSE ParseOptional(opts, toks[i])]

\* list.remove('--'): the words without the first "--" among them.
RemoveDoubleDash(ws) ==
    LET dd == IndexOf(ws, S_dashdash)
    IN  IF dd = 0 THEN ws
        ELSE SubSeq(ws, 1, dd - 1) \o SubSeq(ws, dd + 1, Len(ws))

\* The state of one parser's run: the next word, the namespace, the words
\* nobody recognised, whether the positional has been consumed, whether
\* the last word has been dealt with, and the exit status once the parser
\* has exited.
ParserState(ns) ==
    [i |-> 1, ns |-> ns, extras |-> <<>>, posdone |-> FALSE, done |-> FALSE,
     exit |-> None]

\* parser.error(): usage message, exit status 2.
UsageError(st) == [st EXCEPT !.exit = Some(2)]

\* argparse take_action: the effect of one option on the namespace.  The
\* argument of an option is converted by its type; an attached "--" is
\* removed from the words first and leaves the empty list, unconverted.
\* The default of profile is None, so its value is Some(v).
TakeAction(act, args, st) ==
    IF st.exit # None THEN st
    ELSE IF act.kind = "help" THEN [st EXCEPT !.exit = Some(0)]
    ELSE IF act.kind = "count"
    THEN [st EXCEPT !.ns[act.dest] = CountOpt(@)]
    ELSE IF act.kind = "store_true"
    THEN [st EXCEPT !.ns[act.dest] = TRUE]
    ELSE IF args[1] = S_dashdash
    THEN (IF act.kind = "append"
          THEN [st EXCEPT !.ns[act.dest] = AppendOpt(@, <<>>)]
          ELSE IF act.dest = "profile"
          THEN [st EXCEPT !.ns[act.dest] = Some(<<>>)]
          ELSE [st EXCEPT !.ns[act.dest] = <<>>])
    ELSE IF act.kind = "append"
    THEN [st EXCEPT !.ns[act.dest] = AppendOpt(@, args[1])]
    ELSE IF act.kind = "int"
    THEN (IF IsInt(args[1])
          THEN [st EXCEPT !.ns[act.dest] = ToInt(args[1])]
          ELSE UsageError(st))
    ELSE IF act.dest = "profile"
    THEN [st EXCEPT !.ns[act.dest] = Some(args[1])]
    ELSE [st EXCEPT !.ns[act.dest] = args[1]]

\* The actions of one option word, taken in order.
RECURSIVE TakeActions(_, _, _)
TakeActions(tuples, k, st) ==
    IF k > Len(tuples) THEN st
    ELSE Let(TakeAction(tuples[k].act, tuples[k].args, st),
             LAMBDA s : TakeActions(tuples, k + 1, s))

\* argparse consume_optional for the option word at st.i, read as option
\* string o with attached argument exp; pend holds the options without
\* argument already split off the word (-vv is -v -v).  An attached
\* argument goes to an option that takes one; after a short option that
\* takes none it is read as further short options; an option that takes
\* an argument and has none attached takes the next word, which must be
\* an argument.
RECURSIVE ConsumeOption(_, _, _, _, _, _, _)
ConsumeOption(P, toks, cl, st, o, exp, pend) ==
    LET act == P.opts[o]
        noarg == act.kind \in NoArgumentKinds
        split == exp # None /\ noarg /\ o[2] # "-" /\ exp[1] # <<>>
        o2 == <<"-", exp[1][1]>>
        e2 == IF Len(exp[1]) > 1 THEN Some(Tail(exp[1])) ELSE None
        follows == st.i + 1 <= Len(toks) /\ cl[st.i + 1].cls = "A"
        ok == IF exp # None THEN ~noarg ELSE noarg \/ follows
        args == IF exp # None THEN <<exp[1]>>
                ELSE IF noarg THEN <<>>
                ELSE <<toks[st.i + 1]>>
        next == IF exp = None /\ ~noarg THEN st.i + 2 ELSE st.i + 1
    IN  IF split
        THEN (IF o2 \in DOMAIN P.opts
              THEN ConsumeOption(P, toks, cl, st, o2, e2,
                                 Append(pend, [act |-> act, args |-> <<>>]))
              ELSE UsageError(st))
        ELSE IF ~ok THEN UsageError(st)
        ELSE [TakeActions(Append(pend, [act |-> act, args |-> args]), 1, st)
                 EXCEPT !.i = next]

ConsumeOptional(P, toks, cl, st) ==
    IF cl[st.i].opt = None
    THEN [st EXCEPT !.extras = Append(@, toks[st.i]), !.i = st.i + 1]
    ELSE ConsumeOption(P, toks, cl, st, cl[st.i].opt[1], cl[st.i].exp, <<>>)

\* The length of the run of arguments and "--" from word i on.
RECURSIVE ArgumentRun(_, _)
ArgumentRun(cl, i) ==
    IF i <= Len(cl) /\ cl[i].cls \in {"A", "-"}
    THEN 1 + ArgumentRun(cl, i + 1)
    ELSE 0

\* The positions of the option words from position i on.
OptionsFrom(cl, i) == {j \in i..Len(cl) : cl[j].cls = "O"}

\* The position of the first option word from position i on.
NextOption(cl, i) ==
    CHOOSE j \in OptionsFrom(cl, i) : \A k \in OptionsFrom(cl, i) : j <= k

\* The run of one parser (argparse _parse_known_args) on the words toks,
\* starting from the namespace ns: a parser state.
RECURSIVE RunParser(_, _, _)

\* argparse consume_positionals: the nargs='*' positional takes the run of
\* arguments at st.i, an empty one as well, and is used up; the subparsers
\* action takes every word that is left once an argument comes next,
\* checks the first against its choices and runs the subparser on the
\* others, whose namespace, exit and unrecognised words it passes on.
ConsumePositionals(P, toks, cl, st) ==
    IF st.posdone \/ P.pos = "none" THEN st
    ELSE IF P.pos = "star"
    THEN [st EXCEPT
             !.ns[P.dest] =
                 RemoveDoubleDash(
                     SubSeq(toks, st.i, st.i + ArgumentRun(cl, st.i) - 1)),
             !.posdone = TRUE,
             !.i = st.i + ArgumentRun(cl, st.i)]
    ELSE IF /\ st.i <= Len(toks)
            /\ \/ cl[st.i].cls = "A"
               \/ /\ cl[st.i].cls = "-"
                  /\ st.i + 1 <= Len(toks)
                  /\ cl[st.i + 1].cls = "A"
    THEN IF toks[st.i] \notin DOMAIN P.choices
         THEN UsageError(st)
         ELSE Let(RunParser(P.choices[toks[st.i]],
                            SubSeq(toks, st.i + 1, Len(toks)),
                            [st.ns EXCEPT ![P.dest] = Some(toks[st.i])]),
                  LAMBDA sub :
                      [i |-> Len(toks) + 1, ns |-> sub.ns,
                       extras |-> st.extras \o sub.extras, posdone |-> TRUE,
                       done |-> FALSE, exit |-> sub.exit])
    ELSE st

\* What follows consume_positionals at word i0, s1 being the state it
\* left: when it consumed nothing, the words up to the next option, or
\* all of them after the last option, are words nobody recognised.
SkipWords(toks, cl, i0, s1) ==
    IF s1.exit # None THEN s1
    ELSE IF OptionsFrom(cl, i0) = {}
    THEN [s1 EXCEPT !.extras = @ \o SubSeq(toks, s1.i, Len(toks)),
                    !.i = Len(toks) + 1,
                    !.done = TRUE]
    ELSE IF s1.i > i0 THEN s1
    ELSE [s1 EXCEPT
             !.extras = @ \o SubSeq(toks, s1.i, NextOption(cl, i0) - 1),
             !.i = NextOption(cl, i0)]

\* One round of the loop of _parse_known_args: the option at st.i is
\* consumed, or else the positionals that come before the next option.
ParseStep(P, toks, cl, st) ==
    IF OptionsFrom(cl, st.i) # {} /\ st.i = NextOption(cl, st.i)
    THEN ConsumeOptional(P, toks, cl, st)
    ELSE Let(ConsumePositionals(P, toks, cl, st),
             LAMBDA s1 : SkipWords(toks, cl, st.i, s1))

\* The loop of _parse_known_args, until the parser exits or the last
\* word has been dealt with.
RECURSIVE ParseLoop(_, _, _, _)
ParseLoop(P, toks, cl, st) ==
    IF st.exit # None \/ st.done THEN st
    ELSE Let(ParseStep(P, toks, cl, st),
             LAMBDA s : ParseLoop(P, toks, cl, s))

\* The whole run of one parser: an ambiguous abbreviation among the words
\* ends it before any option is consumed.
RunParser(pid, toks, ns) ==
    Let(Classify(ParserOf(pid).opts, toks),
        LAMBDA cl :
            IF \E i \in 1..Len(toks) : cl[i].cls = "amb"
            THEN UsageError(ParserState(ns))
            ELSE ParseLoop(ParserOf(pid), toks, cl, ParserState(ns)))

\* The namespace of a parser's exit with a status.
ParserExit(status) == [DefaultArgs EXCEPT !.exit = Some(status)]

\* Line 187: parser.parse_args() on the words after the program name;
\* words no parser recognised are a usage error.
parse_args(toks) ==
    Let(RunParser("main", toks, DefaultArgs),
        LAMBDA r :
            IF r.exit # None THEN ParserExit(r.exit[1])
            ELSE IF r.extras # <<>> THEN ParserExit(2)
            ELSE r.ns)

(***************************************************************************)
(* The file system calls main makes (os.makedirs, os.chdir, open)          *)
(*                                                                         *)
(* A directory or file is the sequence of names from the root to it.  A    *)
(* file system error is None or Some of the exception's name.              *)
(***************************************************************************)

\* str.split("/"), as SplitFrom above.
RECURSIVE SplitSlash(_, _, _)
SplitSlash(s, start, i) ==
    IF i > Len(s)
    THEN <<SubSeq(s, start, Len(s))>>
    ELSE IF s[i] = "/"
         THEN <<SubSeq(s, start, i - 1)>> \o SplitSlash(s, i + 1, i + 1)
         ELSE SplitSlash(s, start, i + 1)

Parent(dir) == IF dir = <<>> THEN <<>> ELSE SubSeq(dir, 1, Len(dir) - 1)

\* The kernel's walk along the components comps[i..] of a path, from the
\* directory dir: every name on the way must exist, and only the last may
\* be a file.
RECURSIVE Walk(_, _, _, _, _)
Walk(ds, fs, dir, comps, i) ==
    IF i > Len(comps) THEN [err |-> None, kind |-> "dir", node |-> dir]
    ELSE IF comps[i] = S_empty \/ comps[i] = S_dot
    THEN Walk(ds, fs, dir, comps, i + 1)
    ELSE IF comps[i] = S_dotdot
    THEN Walk(ds, fs, Parent(dir), comps, i + 1)
    ELSE IF Append(dir, comps[i]) \in ds
    THEN Walk(ds, fs, Append(dir, comps[i]), comps, i + 1)
    ELSE IF Append(dir, comps[i]) \in fs
    THEN (IF i = Len(comps)
          THEN [err |-> None, kind |-> "file",
                node |-> Append(dir, comps[i])]
          ELSE [err |-> Some("NotADirectoryError"), kind |-> "none",
                node |-> dir])
    ELSE [err |-> Some("FileNotFoundError"), kind |-> "none", node |-> dir]

\* The directory or file a path string names for a process whose working
\* directory is cwdir, among the directories ds and the files fs.
Resolve(ds, fs, cwdir, path) ==
    IF path = <<>>
    THEN [err |-> Some("FileNotFoundError"), kind |-> "none", node |-> cwdir]
    ELSE Walk(ds, fs, IF path[1] = "/" THEN <<>> ELSE cwdir,
              SplitSlash(path, 1, 1), 1)

\* os.path.exists
exists(ds, fs, cwdir, path) == Resolve(ds, fs, cwdir, path).err = None

\* s.rstrip('/')
RECURSIVE RStripSlash(_)
RStripSlash(s) ==
    IF s # <<>> /\ s[Len(s)] = "/"
    THEN RStripSlash(SubSeq(s, 1, Len(s) - 1))
    ELSE s

\* s.rfind('/') + 1
RFindSlash(s) ==
    IF \E i \in 1..Len(s) : s[i] = "/"
    THEN CHOOSE i \in 1..Len(s) :
             s[i] = "/" /\ \A j \in (i + 1)..Len(s) : s[j] # "/"
    ELSE 0

\* os.path.split: <<head, tail>>
PathSplit(p) ==
    LET i == RFindSlash(p)
        head == SubSeq(p, 1, i)
    IN  <<IF head # <<>> /\ \E j \in 1..Len(head) : head[j] # "/"
          THEN RStripSlash(head)
          ELSE head,
          SubSeq(p, i + 1, Len(p))>>

\* os.mkdir(path): the directories afterwards, and the error raised.  The
\* directory above must exist; the name must not, and "." and ".." always
\* do.
mkdir(ds, fs, cwdir, path) ==
    IF path = <<>> THEN [dirs |-> ds, err |-> Some("FileNotFoundError")]
    ELSE IF RStripSlash(path) = <<>>
    THEN [dirs |-> ds, err |-> Some("FileExistsError")]
    ELSE Let([up |-> IF RFindSlash(RStripSlash(path)) = 0
                     THEN [err |-> None, kind |-> "dir", node |-> cwdir]
                     ELSE Resolve(ds, fs, cwdir,
                              SubSeq(path, 1, RFindSlash(RStripSlash(path)))),
              name |-> SubSeq(RStripSlash(path),
                              RFindSlash(RStripSlash(path)) + 1,
                              Len(RStripSlash(path)))],
             LAMBDA t :
                 IF t.up.err # None THEN [dirs |-> ds, err |-> t.up.err]
                 ELSE IF \/ t.name \in {S_dot, S_dotdot}
                         \/ Append(t.up.node, t.name) \in ds
                         \/ Append(t.up.node, t.name) \in fs
                 THEN [dirs |-> ds, err |-> Some("FileExistsError")]
                 ELSE [dirs |-> ds \cup {Append(t.up.node, t.name)},
                       err |-> None])

\* The head and tail os.makedirs looks at: the split of the name, or of
\* its head when the name ends in a slash.
MakedirsSplit(name) ==
    IF PathSplit(name)[2] = <<>>
    THEN PathSplit(PathSplit(name)[1])
    ELSE PathSplit(name)

\* os.makedirs(name): the directories afterwards, and the error raised.
\* A FileExistsError of the call for the head is passed over, any other
\* error of it is raised on; a tail "." is not made.
RECURSIVE makedirs(_, _, _, _)
makedirs(ds, fs, cwdir, name) ==
    IF /\ MakedirsSplit(name)[1] # <<>>
       /\ MakedirsSplit(name)[2] # <<>>
       /\ ~exists(ds, fs, cwdir, MakedirsSplit(name)[1])
    THEN Let(makedirs(ds, fs, cwdir, MakedirsSplit(name)[1]),
             LAMBDA sub :
                 IF sub.err \notin {None, Some("FileExistsError")} THEN sub
                 ELSE IF MakedirsSplit(name)[2] = S_dot
                 THEN [dirs |-> sub.dirs, err |-> None]
                 ELSE mkdir(sub.dirs, fs, cwdir, name))
    ELSE mkdir(ds, fs, cwdir, name)

\* os.chdir(path): the working directory afterwards, and the error raised.
chdir(ds, fs, cwdir, path) ==
    Let(Resolve(ds, fs, cwdir, path),
        LAMBDA r :
            IF r.err # None THEN [cwd |-> cwdir, err |-> r.err]
            ELSE IF r.kind = "file"
            THEN [cwd |-> cwdir, err |-> Some("NotADirectoryError")]
            ELSE [cwd |-> r.node, err |-> None])

\* open(path, 'w') for a path with a directory part and a name: the file
\* opened, and the error raised.  The file is created if it does not
\* exist and emptied if it does.
open_w(ds, fs, cwdir, path) ==
    Let([up |-> Resolve(ds, fs, cwdir, SubSeq(path, 1, RFindSlash(path))),
         name |-> SubSeq(path, RFindSlash(path) + 1, Len(path))],
        LAMBDA t :
            IF t.up.err # None THEN [file |-> None, err |-> t.up.err]
            ELSE IF Append(t.up.node, t.name) \in ds
            THEN [file |-> None, err |-> Some("IsADirectoryError")]
            ELSE [file |-> Some(Append(t.up.node, t.name)), err |-> None])

(***************************************************************************)
(* query.py do_query and introspection.py, which main calls                *)
(***************************************************************************)

\* get_services(): the services of the catalog, in its order.
get_services == <<S_ec2, S_s3>>

\* The regions a service is available in, in the catalog's order; a
\* service without declared regions gets the single default region.
regions_for(service) ==
    IF service = S_ec2 THEN <<S_eu, S_us>>
    ELSE IF service = S_s3 THEN <<S_us>>
    ELSE <<S_us_east_1>>

\* The listing operations of a service, in the catalog's order.
listing_operations(service) ==
    IF service = S_ec2 THEN <<S_ListA>>
    ELSE IF service = S_s3 THEN <<S_ListB>>
    ELSE <<>>

Range(q) == {q[i] : i \in 1..Len(q)}

\* The elements of q a filter selects: all of them when no filter is given.
Selected(q, filter) ==
    IF filter = None THEN q
    ELSE LET Keep(x) == x \in Range(filter[1]) IN SelectSeq(q, Keep)

\* One job per region and operation selected for the service.
JobsOfService(service, regions_filter, operations_filter) ==
    LET rs == Selected(regions_for(service), regions_filter)
        os == Selected(listing_operations(service), operations_filter)
    IN  [k \in 1..(Len(rs) * Len(os)) |->
            <<service, rs[((k - 1) \div Len(os)) + 1],
              os[((k - 1) % Len(os)) + 1]>>]

\* The job set: for each service handed in, in order, its jobs.
RECURSIVE BuildJobs(_, _, _, _)
BuildJobs(services, regions_filter, operations_filter, i) ==
    IF i > Len(services) THEN <<>>
    ELSE JobsOfService(services[i], regions_filter, operations_filter)
         \o BuildJobs(services, regions_filter, operations_filter, i + 1)

\* The records do_query has collected, by class: none when it starts.
EmptyResults == [c \in ResultClasses |-> <<>>]

\* The key sets the mapping do_query returns can have.  The mapping holds
\* every collected record under its class; which of the classes without a
\* record are keys of it is decided in query.py.
ReturnedKeys(collected) ==
    {ks \in SUBSET ResultClasses :
        \A c \in ResultClasses : collected[c] # <<>> => c \in ks}

\* The result types the record of an operation carries in a class: the
\* names of the response fields with content for SOMETHING, none otherwise.
TypesOf(class, operation) ==
    IF class = RESULT_SOMETHING THEN TypesOfOperation(operation) ELSE S_empty

(***************************************************************************)
(* __main__.py: main                                                       *)
(***************************************************************************)

\* Bounds of the command line model: option pairs after "query", and jobs
\* in one run.
MaxOpts == 2
MaxJobs == 2

\* Python's < on strings: by code point, a proper prefix first.
RECURSIVE StrLessFrom(_, _, _)
StrLessFrom(a, b, i) ==
    IF i > Len(b) THEN FALSE
    ELSE IF i > Len(a) THEN TRUE
    ELSE IF a[i] = b[i] THEN StrLessFrom(a, b, i + 1)
    ELSE Ord[a[i]] < Ord[b[i]]

StrLess(a, b) == StrLessFrom(a, b, 1)

\* sorted() of the keys of a dict whose keys are strings.
RECURSIVE SortedKeys(_)
SortedKeys(S) ==
    IF S = {} THEN <<>>
    ELSE LET m == CHOOSE x \in S : \A y \in S \ {x} : StrLess(x, y)
         IN  <<m>> \o SortedKeys(S \ {m})

\* " ".join(parts)
RECURSIVE Join(_, _)
Join(parts, n) ==
    IF n = 0 THEN <<>>
    ELSE IF n = 1 THEN parts[1]
    ELSE Join(parts, n - 1) \o <<" ">> \o parts[n]

\* print(*x) for a string x: its characters, separated by blanks.
PrintStarString(x) == Join([i \in 1..Len(x) |-> <<x[i]>>], Len(x))

SummaryClasses == <<RESULT_SOMETHING, RESULT_NO_ACCESS, RESULT_ERROR>>

\* Lines 210-213 from the k-th class on; a class missing from the mapping
\* raises KeyError at line 211.
RECURSIVE Summary(_, _)
Summary(rg, k) ==
    IF k > Len(SummaryClasses) THEN [lines |-> <<>>, raised |-> FALSE]
    ELSE IF SummaryClasses[k] \notin DOMAIN rg
         THEN [lines |-> <<>>, raised |-> TRUE]
         ELSE LET result == SortedKeys(DOMAIN rg[SummaryClasses[k]])
                  rest == Summary(rg, k + 1)
              IN  [lines |-> [i \in 1..Len(result) |->
                                 PrintStarString(result[i])] \o rest.lines,
                   raised |-> rest.raised]

\* json.dump(obj, f, indent=2): the document the file holds.
JsonDocument(obj) == [format |-> "json", indent |-> 2, value |-> obj]

\* A variant in which a missing listing file or detail is not an error.
MainReturn_zero(a) ==
    IF a.command = Some(S_introspect) /\ a.introspect = Some(S_list_service_regions)
    THEN Some(0)
    ELSE None

\* Lines 214-244: what main returns for a command other than query.
MainReturn(a) ==
    IF a.command = Some(S_show)
    THEN (IF a.listingfile # <<>> THEN None ELSE Some(1))
    ELSE IF a.command = Some(S_introspect)
    THEN (IF a.introspect = Some(S_list_services) THEN None
          ELSE IF a.introspect = Some(S_list_service_regions) THEN Some(0)
          ELSE IF a.introspect = Some(S_list_operations) THEN None
          ELSE IF a.introspect = Some(S_debug) THEN None
          ELSE Some(1))
    ELSE IF a.command = Some(S_recreate_caches) THEN None
    ELSE Some(1)

\* Line 250: exit(main()); exit(None) is exit status 0.
ExitStatus(ret) == IF ret = None THEN 0 ELSE ret[1]

\* The commands other than query whose branch calls
\* increase_limit_nofiles.
RaisesLimit(a) ==
    \/ a.command = Some(S_show) /\ a.listingfile # <<>>
    \/ a.command = Some(S_recreate_caches)

\* Line 197: services = args.service or get_services()
ServicesOf(a) == IF a.service # None THEN a.service[1] ELSE get_services

\* Lines 190-194: the directories after os.makedirs, whose OSError is
\* passed over; nothing is made for an empty directory option.
QueryDirs(ds, fs, cwdir, a) ==
    IF a.directory # S_empty
    THEN makedirs(ds, fs, cwdir, a.directory).dirs
    ELSE ds

\* Line 195: os.chdir among the directories ds: the working directory
\* afterwards and the error raised, which nothing catches.
QueryCwd(ds, fs, cwdir, a) ==
    IF a.directory # S_empty
    THEN chdir(ds, fs, cwdir, a.directory)
    ELSE [cwd |-> cwdir, err |-> None]

\* The command lines of the model.
RECURSIVE Flatten(_, _)
Flatten(q, n) == IF n = 0 THEN <<>> ELSE Flatten(q, n - 1) \o q[n]

QueryOptPairs ==
    {<<S_opt_s, S_ec2>>, <<S_opt_s, S_s3>>, <<S_opt_r, S_eu>>,
     <<S_opt_r, S_us>>, <<S_opt_d, S_out>>}

QueryArgvs ==
    {<<S_query>> \o Flatten(q, Len(q)) : q \in SeqsUpTo(QueryOptPairs, MaxOpts)}

\* Command lines of every subcommand, with the ways of writing an option
\* that the parser reads: long names and their abbreviations, values
\* attached to an option, stacked short options, -h, "--", values that
\* start with a dash, numbers written with white space and digits outside
\* ASCII, a number of more digits than int() reads, and directories that
\* are a path or name a file.
OtherArgvs ==
    {<<>>, <<S_bogus>>, <<S_opt_h>>,
     <<S_query, S_opt_s>>, <<S_query, S_bogus>>, <<S_query, S_opt_h>>,
     <<S_query, S_opt_p, S_out>>, <<S_query, S_opt_v>>,
     <<S_query, S_opt_p, <<"2">>>>,
     <<S_query, S_opt_o, S_ListA>>, <<S_query, S_opt_s, S_ec2, S_opt_o, S_ListA>>,
     <<S_query, S_opt_s, S_s3, S_opt_o, S_ListA>>,
     <<S_query, S_opt_d, S_dotdot>>, <<S_query, S_opt_s, S_s3, S_opt_d, S_dotdot>>,
     <<S_query, S_opt_d, S_empty>>, <<S_query, S_opt_s, S_s3, S_opt_d, S_empty>>,
     <<S_query, S_opt_d, S_out, S_opt_d, S_dotdot>>,
     <<S_query, S_opt_s, S_s3, S_opt_p, <<"-", "2">>>>,
     <<S_query, S_opt_s, S_s3, S_opt_p, <<"+", "2">>>>,
     <<S_query, S_opt_s, S_s3, S_opt_p, <<"U+000B", "2">>>>,
     <<S_query, S_opt_s, S_s3, S_opt_p, <<"2", "U+00A0">>>>,
     <<S_query, S_opt_s, S_s3, S_opt_p, <<"U+0662">>>>,
     <<S_query, S_opt_s, S_s3, S_opt_p, [i \in 1..(MaxStrDigits + 1) |-> "1"]>>,
     <<S_query, <<"-", "-", "p">>, <<"2">>>>,
     <<S_query, S_long_service, S_s3>>,
     <<S_query, <<"-", "-", "s", "e", "r", "v", "i", "c", "e", "=", "s", "3">>>>,
     <<S_query, <<"-", "s", "s", "3">>>>,
     <<S_query, S_opt_s, S_s3, <<"-", "v", "v">>>>,
     <<S_query, S_opt_d, <<"o", "u", "t", "/", "s", "u", "b">>>>,
     <<S_query, S_opt_s, S_s3, S_opt_d, <<"-">>>>,
     <<S_query, S_opt_s, S_s3, S_opt_d, <<"a", "/", ".", ".", "/", "b">>>>,
     <<S_query, S_opt_s, S_s3, S_opt_d, S_json_name>>,
     <<S_query, S_opt_c, S_dev, S_opt_d, S_dot>>,
     <<S_show>>, <<S_show, S_opt_v>>, <<S_show, S_f1>>,
     <<S_show, S_f1, S_f2>>, <<S_show, S_opt_v, S_f1>>,
     <<S_show, S_f1, S_opt_v, S_f2>>, <<S_show, S_long_verbose, S_f1>>,
     <<S_show, S_dashdash, S_opt_v>>, <<S_show, S_dashdash>>,
     <<S_show, S_long_help>>, <<S_show, <<"-", "U+0662">>>>,
     <<S_introspect>>, <<S_introspect, S_bogus>>, <<S_introspect, S_opt_h>>,
     <<S_introspect, S_list_services>>,
     <<S_introspect, S_list_service_regions>>,
     <<S_introspect, S_list_operations>>,
     <<S_introspect, S_list_operations, S_opt_s, S_ec2>>,
     <<S_introspect, S_list_operations, S_long_service, S_ec2>>,
     <<S_introspect, S_debug>>, <<S_introspect, S_debug, S_bogus>>,
     <<S_recreate_caches>>, <<S_recreate_caches, S_opt_update>>,
     <<S_recreate_caches, <<"-", "-", "u", "p", "d", "a", "t", "e">>>>,
     <<S_recreate_caches, S_bogus>>}

JobsOfArgs(a) == BuildJobs(ServicesOf(a), a.region, a.operation, 1)

\* The command lines of the model: those whose query has at most MaxJobs
\* jobs.
Argvs ==
    {w \in QueryArgvs \cup OtherArgvs :
        Let(parse_args(w),
            LAMBDA a : (a.command = Some(S_query) /\ a.exit = None)
                           => Len(JobsOfArgs(a)) <= MaxJobs)}

\* The environments a run starts in: a fresh one, and one left by earlier
\* runs, with output directories and listings in place.
OldListing == [format |-> "json", indent |-> 2, value |-> "old"]
Environments ==
    {[dirs |-> {<<>>, <<S_w>>}, files |-> <<>>],
     [dirs |-> {<<>>, <<S_w>>, <<S_out>>, <<S_w, S_out>>},
      files |-> [f \in {<<S_json_name>>, <<S_w, S_json_name>>,
                        <<S_out, S_json_name>>, <<S_w, S_out, S_json_name>>}
                    |-> OldListing]]}

MainInit ==
    /\ argv \in Argvs
    /\ phase = "start"
    /\ cwd \in {<<>>, <<S_w>>}
    /\ \E e \in Environments : dirs = e.dirs /\ files = e.files
    /\ written = <<>>
    /\ to_run = <<>>
    /\ pending = {}
    /\ results_by_type = EmptyResults
    /\ result_group = None
    /\ printed = <<>>
    /\ raised = None
    /\ exit_status = None

\* Line 250: a run that an uncaught exception ends prints the traceback
\* and has exit status 1.
UncaughtStatus == 1

\* Lines 196-205 for the namespace a, once chdir returned cd: an error of
\* chdir ends the run before the limit is raised and do_query is called.
EnterQuery(a, cd) ==
    IF cd.err # None
    THEN /\ raised' = cd.err
         /\ exit_status' = Some(UncaughtStatus)
         /\ phase' = "exited"
         /\ UNCHANGED <<cwd, to_run, pending, soft_limit, hard_limit,
                        limit_calls>>
    ELSE /\ cwd' = cd.cwd
         /\ soft_limit' =
                increase_limit_nofiles(CAN_SET_OPEN_FILE_LIMIT, soft_limit,
                                       hard_limit).soft
         /\ hard_limit' =
                increase_limit_nofiles(CAN_SET_OPEN_FILE_LIMIT, soft_limit,
                                       hard_limit).hard
         /\ limit_calls' = limit_calls + 1
         /\ to_run' = JobsOfArgs(a)
         /\ pending' = 1..Len(JobsOfArgs(a))
         /\ phase' = "querying"
         /\ UNCHANGED <<exit_status, raised>>

\* Lines 189-244 for the namespace a that parse_args returned.
Dispatch(a) ==
    IF a.exit # None
    THEN /\ exit_status' = a.exit
         /\ phase' = "exited"
         /\ UNCHANGED <<cwd, dirs, to_run, pending, raised, soft_limit,
                        hard_limit, limit_calls>>
    ELSE IF a.command = Some(S_query)
    THEN \E ds \in {QueryDirs(dirs, DOMAIN files, cwd, a)} :
             /\ dirs' = ds
             /\ \E cd \in {QueryCwd(ds, DOMAIN files, cwd, a)} :
                    EnterQuery(a, cd)
    ELSE /\ exit_status' = Some(ExitStatus(MainReturn(a)))
         /\ phase' = "exited"
         /\ IF RaisesLimit(a)
            THEN /\ soft_limit' =
                        increase_limit_nofiles(CAN_SET_OPEN_FILE_LIMIT,
                                               soft_limit, hard_limit).soft
                 /\ hard_limit' =
                        increase_limit_nofiles(CAN_SET_OPEN_FILE_LIMIT,
                                               soft_limit, hard_limit).hard
                 /\ limit_calls' = limit_calls + 1
            ELSE UNCHANGED <<soft_limit, hard_limit, limit_calls>>
         /\ UNCHANGED <<cwd, dirs, to_run, pending, raised>>

\* The __main__ guard up to the point where main is inside do_query or has
\* returned: lines 248-250, 187-205 and 214-244.
MainStart ==
    /\ phase = "start"
    /\ LET r == get_client(CLIENTS, nsessions, nclients,
                           [service |-> S_ecs, region |-> None,
                            profile |-> None])
       IN  /\ CLIENTS' = r.cache
           /\ nsessions' = r.ns
           /\ nclients' = r.nc
           /\ built' = built \o r.made
           /\ log' = Append(log, [key |-> <<S_ecs, S_us_east_1, S_default>>,
                                  client |-> r.client, session |-> r.session])
    /\ \E a \in {parse_args(argv)} : Dispatch(a)
    /\ UNCHANGED <<thr, aggVars, CAN_SET_OPEN_FILE_LIMIT, limit0, argv, files,
                   written, results_by_type, result_group, printed>>

\* do_query: one job completes and its classified record is collected.
JobDone ==
    /\ phase = "querying"
    /\ \E i \in pending, class \in ResultClasses :
            /\ results_by_type' =
                   [results_by_type EXCEPT ![class] =
                       Append(@, <<to_run[i][2], to_run[i][1], to_run[i][3],
                                   TypesOf(class, to_run[i][3])>>)]
            /\ pending' = pending \ {i}
    /\ UNCHANGED <<clientVars, aggVars, limitVars, argv, phase, cwd, dirs,
                   files, written, to_run, result_group, printed, raised,
                   exit_status>>

\* Lines 206-213 and the return to line 250, once do_query has returned a
\* mapping with the key set ks.  An error of open at line 207, or the
\* KeyError of line 211 for a class that is no key, ends the run.
MainFinish ==
    /\ phase = "querying"
    /\ pending = {}
    /\ \E ks \in ReturnedKeys(results_by_type) :
        LET rg == restructure([c \in ks |-> results_by_type[c]])
            f == open_w(dirs, DOMAIN files, cwd, S_json_path)
            s == Summary(rg, 1)
        IN  /\ result_group' = Some(rg)
            /\ IF f.err # None
               THEN /\ raised' = f.err
                    /\ exit_status' = Some(UncaughtStatus)
                    /\ UNCHANGED <<files, written, printed>>
               ELSE /\ files' = Store(files, f.file[1], JsonDocument(rg))
                    /\ written' = Append(written, f.file[1])
                    /\ printed' = s.lines
                    /\ raised' = IF s.raised THEN Some("KeyError") ELSE None
                    /\ exit_status' =
                           Some(IF s.raised THEN UncaughtStatus ELSE 0)
    /\ phase' = "exited"
    /\ UNCHANGED <<clientVars, aggVars, limitVars, argv, cwd, dirs, to_run,
                   pending, results_by_type>>

(***************************************************************************)
(* Specifications                                                          *)
(***************************************************************************)

\* Values of the variables a specification does not use.
ClientIdle == ClientInit
AggIdle == data = <<>> /\ new_data = None
LimitIdle ==
    /\ CAN_SET_OPEN_FILE_LIMIT = TRUE
    /\ soft_limit = 1024
    /\ hard_limit = 4096
    /\ limit0 = <<1024, 4096>>
    /\ limit_calls = 0
MainIdle ==
    /\ argv = <<>>
    /\ phase = "idle"
    /\ cwd = <<>>
    /\ dirs = {<<>>}
    /\ files = <<>>
    /\ written = <<>>
    /\ to_run = <<>>
    /\ pending = {}
    /\ results_by_type = EmptyResults
    /\ result_group = None
    /\ printed = <<>>
    /\ raised = None
    /\ exit_status = None

\* Concurrent callers of get_client.
InitThreads == ClientInit /\ AggIdle /\ LimitIdle /\ MainIdle
NextThreads ==
    \E t \in Threads :
        \/ Enter(t)
        \/ Check(t)
        \/ MakeSession(t)
        \/ MakeClient(t)
        \/ Publish(t)
        \/ Return(t)
SpecThreads == InitThreads /\ [][NextThreads]_vars

\* A single-threaded caller of get_client.
InitSeq == ClientInit /\ AggIdle /\ LimitIdle /\ MainIdle
NextSeq == SeqCall
SpecSeq == InitSeq /\ [][NextSeq]_vars

\* restructure on bounded input mappings.
InitAgg == ClientIdle /\ AggInit /\ LimitIdle /\ MainIdle
NextAgg == Restructure
SpecAgg == InitAgg /\ [][NextAgg]_vars

\* increase_limit_nofiles on bounded limits.
InitLimit == ClientIdle /\ AggIdle /\ LimitInit /\ MainIdle
NextLimit == IncreaseLimit
SpecLimit == InitLimit /\ [][NextLimit]_vars

\* One run of the command line program.
Init == ClientInit /\ AggIdle /\ LimitIdle /\ MainInit
Next == MainStart \/ JobDone \/ MainFinish
Spec == Init /\ [][Next]_vars

(***************************************************************************)
(* Properties                                                              *)
(***************************************************************************)

KeyOfClient(c) == <<c.service, c.region, c.profile>>
BuiltFor(k) == {i \in 1..Len(built) : KeyOfClient(built[i]) = k}
CallsFor(k) == {i \in 1..Len(log) : log[i].key = k}
AllKeys == {Key(a) : a \in CallArgs}

\* C1: under concurrent callers, at most one client is constructed for a
\* key, every caller with that key is handed the same client, and the
\* cache holds that one client for the key.
C1_SafeConcurrentPopulation ==
    \A k \in AllKeys :
        /\ Cardinality(BuiltFor(k)) <= 1
        /\ \A i, j \in CallsFor(k) : log[i].client = log[j].client
        /\ k \in DOMAIN CLIENTS =>
               \A i \in BuiltFor(k) : CLIENTS[k] = built[i]

\* C6: for calls made one after another, a client is constructed at most
\* once per key: the first call for a key constructs the client and caches
\* it, every later call with that key returns that same client, and calls
\* with different keys never return the same client.
C6_OncePerKey ==
    /\ \A k \in AllKeys : Cardinality(BuiltFor(k)) <= 1
    /\ \A i \in 1..Len(log) :
        /\ KeyOfClient(log[i].client) = log[i].key
        /\ \E n \in BuiltFor(log[i].key) : built[n] = log[i].client
        /\ CLIENTS[log[i].key] = log[i].client
    /\ \A i, j \in 1..Len(log) :
        (log[i].key = log[j].key) <=> (log[i].client = log[j].client)

\* C6 witness: a key was asked for twice, and another key in between or
\* around it.
C6_Witness ==
    \E i, j, l \in 1..Len(log) :
        i < j /\ log[i].key = log[j].key /\ log[l].key # log[i].key

\* C9: a call returns a session exactly when it is the first call for its
\* key (the call that constructs the client); the session carries the
\* key's region and profile; at most one call per key returns a session.
C9_SessionOnlyOnMiss ==
    /\ \A i \in 1..Len(log) :
        /\ (log[i].session # None) <=>
               ~(\E j \in 1..(i - 1) : log[j].key = log[i].key)
        /\ log[i].session # None =>
               /\ log[i].session[1].region = log[i].key[2]
               /\ log[i].session[1].profile = log[i].key[3]
    /\ \A k \in AllKeys :
        Cardinality({i \in CallsFor(k) : log[i].session # None}) <= 1

\* C9 witness: a call served from the cache returned None as the session.
C9_Witness ==
    \E i, j \in 1..Len(log) :
        /\ i < j
        /\ log[i].key = log[j].key
        /\ log[i].session # None
        /\ log[j].session = None

\* The entry restructure stores for a record.
ExpectedTypes(ty) == IF ty = S_tAB THEN <<S_tA, <<"B">>>> ELSE <<ty>>
ExpectedEntry(item) ==
    [operation |-> item[3], result_types |-> ExpectedTypes(item[4])]
RecordsAt(c, r, s) ==
    LET At(item) == item[1] = r /\ item[2] = s IN SelectSeq(data[c], At)

\* C2: the result of restructure has the classes of its input as keys;
\* under a class, the regions of that class's records; under a region, the
\* services of the records of that class and region; and under
\* [class][region][service] one entry per record of that class, region
\* and service, in input order.
C2_FoldsEachRecordOnceInOrder ==
    new_data # None =>
        /\ DOMAIN new_data[1] = DOMAIN data
        /\ \A c \in DOMAIN data :
            /\ DOMAIN new_data[1][c] = {item[1] : item \in Range(data[c])}
            /\ \A r \in DOMAIN new_data[1][c] :
                /\ DOMAIN new_data[1][c][r] =
                       {item[2] : item \in {x \in Range(data[c]) : x[1] = r}}
                /\ \A s \in DOMAIN new_data[1][c][r] :
                    new_data[1][c][r][s] =
                        [n \in 1..Len(RecordsAt(c, r, s)) |->
                            ExpectedEntry(RecordsAt(c, r, s)[n])]

\* C2 witness: restructure has run on a class with two records of the same
\* region and service whose operations are not in alphabetical order.
C2_Witness ==
    /\ new_data # None
    /\ \E c \in DOMAIN data :
        /\ Len(data[c]) = 2
        /\ data[c][1][1] = data[c][2][1]
        /\ data[c][1][2] = data[c][2][2]
        /\ data[c][1][3] = S_ListB
        /\ data[c][2][3] = S_ListA

\* C3: the Result Group of a query run has a key for each of the four
\* result classes, in memory and in the document written to disk.
\* restructure gives the Result Group the keys of the mapping do_query
\* returned and no other (lines 62-63), so this holds in the runs in which
\* do_query returned all four keys and in no other run.
C3_AllFourClassesPresent ==
    result_group # None =>
        /\ ResultClasses \subseteq DOMAIN result_group[1]
        /\ \A i \in 1..Len(written) :
               ResultClasses \subseteq DOMAIN files[written[i]].value

\* Python's < on records: field by field.
RECURSIVE ItemLessFrom(_, _, _)
ItemLessFrom(x, y, i) ==
    IF i > Len(x) THEN FALSE
    ELSE IF x[i] = y[i] THEN ItemLessFrom(x, y, i + 1)
    ELSE StrLess(x[i], y[i])

\* q[1..n] sorted, with its repetitions.
RECURSIVE SortedItems(_, _)
SortedItems(q, n) ==
    IF n = 0 THEN <<>>
    ELSE LET rest == SortedItems(q, n - 1)
             Before(y) == ~ItemLessFrom(q[n], y, 1)
             After(y) == ItemLessFrom(q[n], y, 1)
         IN  SelectSeq(rest, Before) \o <<q[n]>> \o SelectSeq(rest, After)

RecordLines(q) ==
    [i \in 1..Len(q) |-> Join(SortedItems(q, Len(q))[i], 4)]

\* C4: after a query the summary is one line per record of the classes
\* SOMETHING, NO_ACCESS and ERROR, in that order of classes and in
\* lexicographic order of the records within a class, each line showing
\* its record, and no line for a NOTHING record.
C4_SummaryListsRecords ==
    (phase = "exited" /\ result_group # None /\ raised = None) =>
        printed = RecordLines(results_by_type[RESULT_SOMETHING])
                  \o RecordLines(results_by_type[RESULT_NO_ACCESS])
                  \o RecordLines(results_by_type[RESULT_ERROR])

\* C5: a query run writes one file, aws_list_all.json in the working
\* directory it changed into, holding the Result Group.
C5_WritesIntoWorkingDirectory ==
    (phase = "exited" /\ result_group # None /\ raised = None) =>
        /\ written = <<Append(cwd, S_json_name)>>
        /\ Append(cwd, S_json_name) \in DOMAIN files
        /\ files[Append(cwd, S_json_name)] = JsonDocument(result_group[1])

\* The command lines that lack a required sub-argument: the parser
\* accepts them and reports no subcommand, show without a listing file, or
\* introspect without a detail.
MissingSubArgument(w) ==
    LET a == parse_args(w)
    IN  /\ a.exit = None
        /\ \/ a.command = None
           \/ a.command = Some(S_show) /\ a.listingfile = <<>>
           \/ a.command = Some(S_introspect) /\ a.introspect = None

\* The details introspect knows.
IntrospectDetails ==
    {S_list_services, S_list_service_regions, S_list_operations, S_debug}

\* The command lines that name an introspect detail that does not exist.
UnknownDetail(w) ==
    /\ Len(w) >= 2
    /\ w[1] = S_introspect
    /\ w[2] \notin IntrospectDetails
    /\ w[2] # <<>> => w[2][1] # "-"

\* C7, as claimed: the exit status is 1 exactly when a required
\* sub-argument is missing or the introspect detail is unknown, and 0 for
\* every other invocation that completes.
C7_ExitOneOnMissingOrUnknown ==
    (exit_status # None /\ raised = None) =>
        /\ (exit_status[1] = 1) <=>
               (MissingSubArgument(argv) \/ UnknownDetail(argv))
        /\ (exit_status[1] # 1 /\ parse_args(argv).exit # Some(2)) =>
               exit_status[1] = 0

\* C7, amended: for a run that no uncaught exception ends, the exit
\* status is 1 exactly when a required sub-argument is missing, and 0 for
\* every other command line the parser accepts; introspect with an unknown
\* detail is rejected by the parser and ends with status 2.
C7_ExitOneOnMissing ==
    (exit_status # None /\ raised = None) =>
        /\ (exit_status[1] = 1) <=> MissingSubArgument(argv)
        /\ (parse_args(argv).exit = None /\ ~MissingSubArgument(argv)) =>
               exit_status[1] = 0
        /\ UnknownDetail(argv) => exit_status[1] = 2

\* C7 witness: runs ended with each of the statuses: introspect without a
\* detail with 1 is the state asked for here.
C7_Witness ==
    /\ exit_status = Some(1)
    /\ argv = <<S_introspect>>

\* C8: the job set of a query run holds no (service, region, operation)
\* triple twice.
C8_NoDuplicateJobs ==
    \A i, j \in 1..Len(to_run) : i # j => to_run[i] # to_run[j]

\* C10: a call of increase_limit_nofiles leaves the hard limit alone and
\* sets the soft limit to max(soft, min(6000, hard)), which neither lowers
\* it nor lifts it above the hard limit; without the resource module the
\* limits stay as they were.
C10_SoftLimitRaisedWithinHard ==
    limit_calls > 0 =>
        /\ hard_limit = limit0[2]
        /\ soft_limit >= limit0[1]
        /\ soft_limit <= hard_limit
        /\ CAN_SET_OPEN_FILE_LIMIT =>
               soft_limit = Max(limit0[1], Min(6000, limit0[2]))
        /\ ~CAN_SET_OPEN_FILE_LIMIT => soft_limit = limit0[1]

\* C10 witness: the call raised a soft limit to a hard limit below 6000.
C10_Witness ==
    /\ limit_calls > 0
    /\ CAN_SET_OPEN_FILE_LIMIT
    /\ limit0[2] < 6000
    /\ limit0[1] < limit0[2]
    /\ soft_limit = limit0[2]

====
